---- MODULE Spec2Model ----
(***************************************************************************)
(* solar-spa: the TypeScript binding (src/index.ts) over the Emscripten    *)
(* build of the C wrapper (spa_wrapper.c) around NREL's spa_calculate.     *)
(*                                                                         *)
(* JavaScript runs one job at a time: every action below is one job (the   *)
(* synchronous prefix of a call, a promise reaction), or one statement     *)
(* group of the job that currently owns the thread (variable running).     *)
(*                                                                         *)
(* Numbers are integers.  Degrees, metres, seconds and hours of the inputs *)
(* are whole; pressure is in 1/100 mbar and atmos_refract in 1/10000       *)
(* degree, so that the defaults 1013.25 and 0.5667 are the integers        *)
(* 101325 and 5667.                                                        *)
(***************************************************************************)
EXTENDS Integers, Sequences, FiniteSets, TLC

VARIABLES
    module,     \* _module    : TRUE when the cached WASM module is non-null
    pending,    \* _pending   : 0 when null, else the initialisation it belongs to
    calculate,  \* _calculate : TRUE when the cwrap binding is non-null
    free,       \* _free      : TRUE when the cwrap binding is non-null
    stage,      \* per initialisation: where its promise chain stands
    factoryCalls, \* how many times createSpaModule() was invoked
    cwrapCalls, \* how many times mod.cwrap() was invoked
    calls,      \* per call of init()/spa(): its arguments, position and outcome
    running,    \* the call whose continuation owns the thread, 0 when none
    allocated,  \* WASM heap: the result structs malloc'ed and not yet freed
    mem,        \* WASM heap: contents of each struct, by byte offset
    frame,      \* WASM stack: what the last wrapper call left in 'spa_data spa'
    spaModule   \* solar-spa.js (version 1): the global Emscripten module object

vars == <<module, pending, calculate, free, stage, factoryCalls, cwrapCalls,
          calls, running, allocated, mem, frame, spaModule>>

(***************************************************************************)
(* Bounds of the model.                                                    *)
(***************************************************************************)
MaxCalls == 3
MaxAttempts == 2

CallIds == 1..MaxCalls
Attempts == 1..MaxAttempts
Ptrs == 1..MaxCalls

(***************************************************************************)
(* types.ts                                                                *)
(***************************************************************************)
SPA_ZA == 0
SPA_ZA_INC == 1
SPA_ZA_RTS == 2
SPA_ALL == 3

OptionNames == {"timezone", "elevation", "pressure", "temperature", "delta_ut1",
                "delta_t", "slope", "azm_rotation", "atmos_refract", "function"}

ResultFields == <<"zenith", "azimuth_astro", "azimuth", "incidence", "sunrise",
                  "sunset", "suntransit", "sun_transit_alt", "eot", "error_code">>

ResultNames == {ResultFields[i] : i \in 1..Len(ResultFields)}
DoubleNames == ResultNames \ {"error_code"}

(***************************************************************************)
(* index.ts: OFFSET, the byte offsets readResult reads at.                 *)
(***************************************************************************)
\* Faulty variant: the offsets of the seven-field struct of version 1.
OFFSET_VersionOne ==
    [zenith |-> 0, azimuth_astro |-> 8, azimuth |-> 8, incidence |-> 16,
     sunrise |-> 24, sunset |-> 32, suntransit |-> 40, sun_transit_alt |-> 48,
     eot |-> 64, error_code |-> 72]

OFFSET == [zenith |-> 0, azimuth_astro |-> 8, azimuth |-> 16, incidence |-> 24,
           sunrise |-> 32, sunset |-> 40, suntransit |-> 48,
           sun_transit_alt |-> 56, eot |-> 64, error_code |-> 72]

(***************************************************************************)
(* spa_wrapper.c: typedef struct spa_result.  Nine doubles and an int, in  *)
(* declaration order; a double is 8 bytes, 8-aligned (wasm32).             *)
(***************************************************************************)
SizeofDouble == 8

StructOrder == <<"zenith", "azimuth_astro", "azimuth", "incidence", "sunrise",
                 "sunset", "suntransit", "sun_transit_alt", "eot", "error_code">>

StructOffset(name) ==
    (CHOOSE i \in 1..Len(StructOrder) : StructOrder[i] = name) * SizeofDouble
        - SizeofDouble

Offsets == {StructOffset(n) : n \in ResultNames}

\* The C type of each member, and the type readResult's getValue asks for.
StructType(name) == IF name = "error_code" THEN "i32" ELSE "double"
ReadType == [n \in ResultNames |-> IF n = "error_code" THEN "i32" ELSE "double"]

(***************************************************************************)
(* JavaScript values handed to spa().  A number argument may be anything   *)
(* (typeof, isFinite); a Date may be no Date at all or an invalid one.     *)
(***************************************************************************)
Num(v) == [type |-> "number", finite |-> TRUE, v |-> v]
NaN == [type |-> "number", finite |-> FALSE, v |-> 0]
Infinity == [type |-> "number", finite |-> FALSE, v |-> 1]
NotANumber == [type |-> "string", finite |-> FALSE, v |-> 0]
Undefined == [type |-> "undefined", finite |-> FALSE, v |-> 0]

DateOf(y, mo, d, h, mi, s, off) ==
    [isDate |-> TRUE, valid |-> TRUE, year |-> y, month |-> mo, date |-> d,
     hours |-> h, minutes |-> mi, seconds |-> s, tzOffset |-> off]
InvalidDate == [DateOf(0, 0, 0, 0, 0, 0, 0) EXCEPT !.valid = FALSE]
NotADate == [DateOf(0, 0, 0, 0, 0, 0, 0) EXCEPT !.isDate = FALSE, !.valid = FALSE]

\* An options object is the function from the names it has to their values;
\* hasOptions is FALSE when the fourth argument is omitted.
Input(date, lat, lon, hasOptions, options) ==
    [date |-> date, latitude |-> lat, longitude |-> lon,
     hasOptions |-> hasOptions, options |-> options]

NoOptions == [n \in {} |-> 0]
NoInput == Input(NotADate, Undefined, Undefined, FALSE, NoOptions)

(***************************************************************************)
(* spa.c (NREL), not among the sources: modelled from the specification    *)
(* and the input table of the algorithm page.                              *)
(***************************************************************************)
SpaInputNames == <<"year", "month", "day", "hour", "minute", "second", "timezone",
                   "latitude", "longitude", "elevation", "pressure", "temperature",
                   "delta_ut1", "delta_t", "slope", "azm_rotation", "atmos_refract",
                   "function">>

\* The engine's own outputs, as spa_data names them.
SpaOutputNames == {"zenith", "azimuth_astro", "azimuth", "incidence", "sunrise",
                   "sunset", "suntransit", "sta", "eot"}

InRange(v, lo, hi) == lo <= v /\ v <= hi

\* Input bounds; pressure in 1/100 mbar, atmos_refract in 1/10000 degree.
FieldOk(spa, f) ==
    CASE f = "year" -> InRange(spa.year, -2000, 6000)
      [] f = "month" -> InRange(spa.month, 1, 12)
      [] f = "day" -> InRange(spa.day, 1, 31)
      [] f = "hour" -> InRange(spa.hour, 0, 24)
      [] f = "minute" -> InRange(spa.minute, 0, 59)
      [] f = "second" -> 0 <= spa.second /\ spa.second < 60
      [] f = "timezone" -> InRange(spa.timezone, -18, 18)
      [] f = "latitude" -> InRange(spa.latitude, -90, 90)
      [] f = "longitude" -> InRange(spa.longitude, -180, 180)
      [] f = "elevation" -> spa.elevation >= -6500000
      [] f = "pressure" -> InRange(spa.pressure, 0, 500000)
      [] f = "temperature" -> InRange(spa.temperature, -273, 6000)
      [] f = "delta_ut1" -> InRange(spa.delta_ut1, -1, 1)
      [] f = "delta_t" -> InRange(spa.delta_t, -8000, 8000)
      [] f = "slope" -> InRange(spa.slope, -360, 360)
      [] f = "azm_rotation" -> InRange(spa.azm_rotation, -360, 360)
      [] f = "atmos_refract" -> InRange(spa.atmos_refract, -50000, 50000)
      [] OTHER -> TRUE

\* The order the fields are checked in, and the code each one reports
\* (timezone is 8: API reference, Error Handling).
CheckOrder == <<"year", "month", "day", "hour", "minute", "second", "delta_t",
                "timezone", "longitude", "latitude", "elevation", "pressure",
                "temperature", "slope", "azm_rotation", "atmos_refract",
                "delta_ut1">>

validate_inputs(spa) ==
    LET bad == {i \in 1..Len(CheckOrder) : ~FieldOk(spa, CheckOrder[i])}
    IN  IF bad = {} THEN 0 ELSE CHOOSE i \in bad : \A j \in bad : i <= j

RunsIncidence(fn) == fn \in {SPA_ZA_INC, SPA_ALL}
RunsRts(fn) == fn \in {SPA_ZA_RTS, SPA_ALL}

\* Which outputs a successful run stores for a function code (spec 4.8).
Computes(fn) ==
    {"zenith", "azimuth_astro", "azimuth", "eot"}
        \cup (IF RunsIncidence(fn) THEN {"incidence"} ELSE {})
        \cup (IF RunsRts(fn) THEN {"sunrise", "sunset", "suntransit", "sta"} ELSE {})

\* The rise/transit/set solver ends in NO_CROSSING (spec 4.7) on a polar
\* day or night: abstracted to the polar latitudes around the solstices.
NoCrossing(spa) ==
    /\ spa.latitude >= 67 \/ spa.latitude <= -67
    /\ spa.month \in {1, 6, 7, 12}

\* What sunrise, sunset and suntransit hold then: no time of day, which
\* formatTime's callers are told to expect as a negative or non-finite value.
NoCrossingMark == -99999

\* The astronomy, abstracted to integer functions of the inputs each stage
\* reads (spec 3 and 4): whole degrees, and quarter seconds of the day for
\* the times.
DayKey(spa) == spa.year * 372 + spa.month * 31 + spa.day
Geometry(spa) ==
    DayKey(spa) * 24 + spa.hour + spa.minute + spa.second - spa.timezone
        + spa.delta_t + spa.delta_ut1 + 3 * spa.latitude + 5 * spa.longitude
        + spa.elevation

Engine(spa, f) ==
    CASE f = "zenith" ->
            1 + ((Geometry(spa) + spa.pressure + spa.temperature
                    + spa.atmos_refract) % 179)
      [] f = "azimuth_astro" -> (7 * Geometry(spa)) % 360
      [] f = "azimuth" -> (((7 * Geometry(spa)) % 360) + 180) % 360
      [] f = "incidence" ->
            1 + ((Geometry(spa) + spa.slope + 2 * spa.azm_rotation) % 179)
      [] f \in {"suntransit", "sunrise", "sunset"} /\ NoCrossing(spa) ->
            NoCrossingMark
      [] f = "suntransit" -> 172800 + ((DayKey(spa) - spa.longitude) % 7200)
      [] f = "sunrise" ->
            86400 + ((DayKey(spa) - spa.longitude + spa.latitude) % 14400)
      [] f = "sunset" ->
            259200 + ((DayKey(spa) - spa.longitude - spa.latitude) % 14400)
      [] f = "sta" -> 1 + ((DayKey(spa) + spa.latitude) % 89)
      [] OTHER -> 1 + (DayKey(spa) % 16)

\* The rise/transit/set solver (spec 4.7): SEARCH_TRANSIT, SEARCH_RISE and
\* SEARCH_SET in turn, each evaluating the position pipeline at its time
\* point, then DONE, or NO_CROSSING when the sun does not cross the horizon.
SearchStates == {"SEARCH_TRANSIT", "SEARCH_RISE", "SEARCH_SET"}
TerminalStates == {"DONE", "NO_CROSSING"}

SolverNext(st, spa) ==
    CASE st = "SEARCH_TRANSIT" -> "SEARCH_RISE"
      [] st = "SEARCH_RISE" -> "SEARCH_SET"
      [] st = "SEARCH_SET" -> IF NoCrossing(spa) THEN "NO_CROSSING" ELSE "DONE"
      [] OTHER -> st

RECURSIVE SolverRun(_, _)
SolverRun(trace, spa) ==
    IF trace[Len(trace)] \in TerminalStates THEN trace
    ELSE SolverRun(Append(trace, SolverNext(trace[Len(trace)], spa)), spa)

\* What a run does for its function code (spec 4.8): how often the position
\* pipeline is evaluated, whether incidence is computed, and the states the
\* solver went through, none when it did not run.
NoWork == [position |-> 0, incidence |-> FALSE, solver |-> <<>>]

EngineWork(spa) ==
    LET trace == IF RunsRts(spa.function) THEN SolverRun(<<"SEARCH_TRANSIT">>, spa)
                 ELSE <<>>
    IN  [position |-> 1 + Cardinality({i \in 1..Len(trace) : trace[i] \in SearchStates}),
         incidence |-> RunsIncidence(spa.function),
         solver |-> trace]

\* spa_calculate(&spa): the return code, the struct's outputs afterwards and
\* the work done.  A failed validation computes and stores nothing; a run
\* stores only what it computes.
spa_calculate(spa, before) ==
    LET rc == validate_inputs(spa)
    IN  [rc |-> rc,
         out |-> [f \in SpaOutputNames |->
                    IF rc = 0 /\ f \in Computes(spa.function)
                    THEN Engine(spa, f) ELSE before[f]],
         work |-> IF rc = 0 THEN EngineWork(spa) ELSE NoWork]

(***************************************************************************)
(* spa_wrapper.c                                                           *)
(***************************************************************************)
\* The spa_data field a result field is copied from (sun_transit_alt = spa.sta).
SpaField(name) == IF name = "sun_transit_alt" THEN "sta" ELSE name

ZeroFrame == [f \in SpaOutputNames |-> 0]

\* 'spa_data spa;' has no initialiser: its output fields start as whatever
\* the stack holds, zero on a fresh stack or the values an earlier call of
\* the wrapper left at the same place.
Indeterminate(left) == {ZeroFrame, left}

\* Faulty variant: pressure and temperature stored in each other's field.
SpaData_PressureForTemperature(a) ==
    [n \in {SpaInputNames[i] : i \in 1..Len(SpaInputNames)} |->
        a[CHOOSE i \in 1..Len(SpaInputNames) :
            SpaInputNames[i] = (IF n = "pressure" THEN "temperature"
                                ELSE IF n = "temperature" THEN "pressure" ELSE n)]]

\* Faulty variant: spa.function set to SPA_ALL whatever function_code is.
SpaData_AlwaysAll(a) ==
    [n \in {SpaInputNames[i] : i \in 1..Len(SpaInputNames)} |->
        IF n = "function" THEN SPA_ALL
        ELSE a[CHOOSE i \in 1..Len(SpaInputNames) : SpaInputNames[i] = n]]

\* Faulty variant: spa.function never assigned, left at SPA_ZA.
SpaData_FunctionUnset(a) ==
    [n \in {SpaInputNames[i] : i \in 1..Len(SpaInputNames)} |->
        IF n = "function" THEN SPA_ZA
        ELSE a[CHOOSE i \in 1..Len(SpaInputNames) : SpaInputNames[i] = n]]

\* Lines 45-62: each parameter is stored in the spa_data field of its name.
SpaData(a) ==
    [n \in {SpaInputNames[i] : i \in 1..Len(SpaInputNames)} |->
        a[CHOOSE i \in 1..Len(SpaInputNames) : SpaInputNames[i] = n]]

\* Faulty variant: the wrapper without its else branch, copying spa's fields whatever
\* spa_calculate returned.
spa_calculate_wrapper_NoZeroFill(a, before) ==
    LET r == spa_calculate(SpaData(a), before)
        field(name) == IF name = "error_code" THEN r.rc ELSE r.out[SpaField(name)]
    IN  [rc |-> r.rc,
         spa |-> r.out,
         work |-> r.work,
         struct |-> [off \in Offsets |->
                       field(CHOOSE n \in ResultNames : StructOffset(n) = off)]]

\* Faulty variant: error_code set to 1 for every failure.
spa_calculate_wrapper_FlagOnly(a, before) ==
    LET r == spa_calculate(SpaData(a), before)
        field(name) ==
            IF name = "error_code" THEN (IF r.rc = 0 THEN 0 ELSE 1)
            ELSE IF r.rc = 0 THEN r.out[SpaField(name)] ELSE 0
    IN  [rc |-> r.rc,
         spa |-> r.out,
         work |-> r.work,
         struct |-> [off \in Offsets |->
                       field(CHOOSE n \in ResultNames : StructOffset(n) = off)]]

\* spa_calculate_wrapper past a successful malloc: the struct written
\* through the C layout, and the spa_data left behind.  a is the argument
\* list in parameter order, before the initial content of 'spa'.
spa_calculate_wrapper(a, before) ==
    LET r == spa_calculate(SpaData(a), before)
        field(name) ==
            IF name = "error_code" THEN r.rc
            ELSE IF r.rc = 0 THEN r.out[SpaField(name)] ELSE 0
    IN  [rc |-> r.rc,
         spa |-> r.out,
         work |-> r.work,
         struct |-> [off \in Offsets |->
                       field(CHOOSE n \in ResultNames : StructOffset(n) = off)]]

ZeroStruct == [off \in Offsets |-> 0]

(***************************************************************************)
(* index.ts                                                                *)
(***************************************************************************)
DefaultElevation == 0
DefaultPressure == 101325
DefaultTemperature == 15
DefaultDeltaUt1 == 0
DefaultDeltaT == 67
DefaultSlope == 0
DefaultAzmRotation == 0
DefaultAtmosRefract == 5667

\* Faulty variant: opts.name || dflt, which also replaces a supplied 0.
Coalesce_Falsy(opts, name, dflt) ==
    IF name \in DOMAIN opts /\ opts[name] # 0 THEN opts[name] ELSE dflt

\* opts.name ?? dflt
Coalesce(opts, name, dflt) == IF name \in DOMAIN opts THEN opts[name] ELSE dflt

\* -(date.getTimezoneOffset() / 60); the offsets of the model are whole hours.
LocalTimezone(date) == 0 - (date.tzOffset \div 60)

\* Faulty variant: the function code passed a second time, in the place of
\* atmos_refract.
SpaArgs_FunctionForRefraction(in) ==
    LET opts == IF in.hasOptions THEN in.options ELSE NoOptions
        d == in.date
    IN  <<d.year, d.month + 1, d.date, d.hours, d.minutes, d.seconds,
          Coalesce(opts, "timezone", LocalTimezone(d)),
          in.latitude.v,
          in.longitude.v,
          Coalesce(opts, "elevation", DefaultElevation),
          Coalesce(opts, "pressure", DefaultPressure),
          Coalesce(opts, "temperature", DefaultTemperature),
          Coalesce(opts, "delta_ut1", DefaultDeltaUt1),
          Coalesce(opts, "delta_t", DefaultDeltaT),
          Coalesce(opts, "slope", DefaultSlope),
          Coalesce(opts, "azm_rotation", DefaultAzmRotation),
          Coalesce(opts, "function", SPA_ALL),
          Coalesce(opts, "function", SPA_ALL)>>

\* Faulty variant: longitude passed before latitude.
SpaArgs_LongitudeFirst(in) ==
    LET opts == IF in.hasOptions THEN in.options ELSE NoOptions
        d == in.date
    IN  <<d.year, d.month + 1, d.date, d.hours, d.minutes, d.seconds,
          Coalesce(opts, "timezone", LocalTimezone(d)),
          in.longitude.v,
          in.latitude.v,
          Coalesce(opts, "elevation", DefaultElevation),
          Coalesce(opts, "pressure", DefaultPressure),
          Coalesce(opts, "temperature", DefaultTemperature),
          Coalesce(opts, "delta_ut1", DefaultDeltaUt1),
          Coalesce(opts, "delta_t", DefaultDeltaT),
          Coalesce(opts, "slope", DefaultSlope),
          Coalesce(opts, "azm_rotation", DefaultAzmRotation),
          Coalesce(opts, "atmos_refract", DefaultAtmosRefract),
          Coalesce(opts, "function", SPA_ALL)>>

\* The eighteen arguments of _calculate(...), in call order.
SpaArgs(in) ==
    LET opts == IF in.hasOptions THEN in.options ELSE NoOptions
        d == in.date
    IN  <<d.year, d.month + 1, d.date, d.hours, d.minutes, d.seconds,
          Coalesce(opts, "timezone", LocalTimezone(d)),
          in.latitude.v,
          in.longitude.v,
          Coalesce(opts, "elevation", DefaultElevation),
          Coalesce(opts, "pressure", DefaultPressure),
          Coalesce(opts, "temperature", DefaultTemperature),
          Coalesce(opts, "delta_ut1", DefaultDeltaUt1),
          Coalesce(opts, "delta_t", DefaultDeltaT),
          Coalesce(opts, "slope", DefaultSlope),
          Coalesce(opts, "azm_rotation", DefaultAzmRotation),
          Coalesce(opts, "atmos_refract", DefaultAtmosRefract),
          Coalesce(opts, "function", SPA_ALL)>>

\* assertFiniteNumber
IsFiniteNumber(x) == x.type = "number" /\ x.finite

\* Faulty variant: the range checks written with <= and >=, rejecting the bounds.
Validate_ExclusiveBounds(in) ==
    IF ~in.date.isDate \/ ~in.date.valid THEN "TypeError"
    ELSE IF ~IsFiniteNumber(in.latitude) THEN "TypeError"
    ELSE IF ~IsFiniteNumber(in.longitude) THEN "TypeError"
    ELSE IF in.latitude.v <= -90 \/ in.latitude.v >= 90 THEN "RangeError"
    ELSE IF in.longitude.v <= -180 \/ in.longitude.v >= 180 THEN "RangeError"
    ELSE ""

\* The checks at the head of spa(): the error thrown, "" when none.
Validate(in) ==
    IF ~in.date.isDate \/ ~in.date.valid THEN "TypeError"
    ELSE IF ~IsFiniteNumber(in.latitude) THEN "TypeError"
    ELSE IF ~IsFiniteNumber(in.longitude) THEN "TypeError"
    ELSE IF in.latitude.v < -90 \/ in.latitude.v > 90 THEN "RangeError"
    ELSE IF in.longitude.v < -180 \/ in.longitude.v > 180 THEN "RangeError"
    ELSE ""

(***************************************************************************)
(* formatTime.  A time is counted in ticks of 1/TicksPerHour hour (a       *)
(* quarter second), so that Math.round has something to round.  A finite   *)
(* double that is not exactly on a tick lies just below or above one        *)
(* (side -1 or 1); snap says that its product with 3600, rounded to a       *)
(* double, lands exactly on the tick.  A double is big when its product     *)
(* with 3600 exceeds Number.MAX_VALUE.                                      *)
(***************************************************************************)
TicksPerHour == 14400
TicksPerSecond == 4

Double(v, side, snap) ==
    [type |-> "number", finite |-> TRUE, v |-> v, side |-> side, snap |-> snap,
     big |-> FALSE]
Exact(v) == Double(v, 0, FALSE)
Big == [Exact(0) EXCEPT !.big = TRUE]
NegInfinity == [type |-> "number", finite |-> FALSE, v |-> -1]

\* hours < 0
Negative(hours) == ~hours.big /\ (hours.v < 0 \/ (hours.v = 0 /\ hours.side < 0))

\* hours * 3600: seconds in ticks, Infinity on overflow.
Times3600(hours) ==
    IF hours.big THEN Infinity
    ELSE [finite |-> TRUE, v |-> hours.v,
          side |-> IF hours.snap THEN 0 ELSE hours.side]

\* Math.round: to the nearest integer, halves upwards.
MathRound(x) ==
    IF ~x.finite THEN x
    ELSE IF x.v % TicksPerSecond = 2 /\ x.side < 0 THEN Num(x.v \div TicksPerSecond)
    ELSE Num((x.v + 2) \div TicksPerSecond)

\* Math.floor(x / d), x % d, x * k and x - y on what Math.round returned.
FloorDiv(x, d) == IF ~x.finite THEN x ELSE Num(x.v \div d)
Remainder(x, d) ==
    IF ~x.finite THEN NaN
    ELSE IF x.v < 0 THEN Num(0 - ((0 - x.v) % d)) ELSE Num(x.v % d)
Times(x, k) == IF ~x.finite THEN x ELSE Num(x.v * k)
Minus(x, y) ==
    IF x = NaN \/ y = NaN THEN NaN
    ELSE IF ~x.finite /\ ~y.finite THEN (IF x = y THEN NaN ELSE x)
    ELSE IF ~x.finite THEN x
    ELSE IF ~y.finite THEN (IF y = Infinity THEN NegInfinity ELSE Infinity)
    ELSE Num(x.v - y.v)

\* Strings are sequences of characters.
Digits == <<"0", "1", "2", "3", "4", "5", "6", "7", "8", "9">>
RECURSIVE Decimal(_)
Decimal(n) ==
    IF n < 10 THEN <<Digits[n + 1]>> ELSE Decimal(n \div 10) \o <<Digits[(n % 10) + 1]>>

\* String(x)
StringOf(x) ==
    IF x = NaN THEN <<"N", "a", "N">>
    ELSE IF x = Infinity THEN <<"I", "n", "f", "i", "n", "i", "t", "y">>
    ELSE IF x = NegInfinity THEN <<"-", "I", "n", "f", "i", "n", "i", "t", "y">>
    ELSE IF x.v < 0 THEN <<"-">> \o Decimal(0 - x.v)
    ELSE Decimal(x.v)

\* str.padStart(2, '0')
PadStart2(str) == IF Len(str) < 2 THEN <<"0">> \o str ELSE str

NotAvailable == <<"N", "/", "A">>

\* Faulty variant: line 77 without 'hours < 0', as before 2.0.0.
formatTime_NoNegativeCheck(hours) ==
    IF ~hours.finite THEN NotAvailable
    ELSE LET totalSec == MathRound(Times3600(hours))
             h == Remainder(FloorDiv(totalSec, 3600), 24)
             rem == Minus(totalSec, Times(FloorDiv(totalSec, 3600), 3600))
             m == FloorDiv(rem, 60)
             sec == Minus(rem, Times(m, 60))
         IN  PadStart2(StringOf(h)) \o <<":">> \o PadStart2(StringOf(m))
                \o <<":">> \o PadStart2(StringOf(sec))

\* Faulty variant: the hour printed without '% 24', as before 2.0.0.
formatTime_NoWrap(hours) ==
    IF ~hours.finite \/ Negative(hours) THEN NotAvailable
    ELSE LET totalSec == MathRound(Times3600(hours))
             h == FloorDiv(totalSec, 3600)
             rem == Minus(totalSec, Times(FloorDiv(totalSec, 3600), 3600))
             m == FloorDiv(rem, 60)
             sec == Minus(rem, Times(m, 60))
         IN  PadStart2(StringOf(h)) \o <<":">> \o PadStart2(StringOf(m))
                \o <<":">> \o PadStart2(StringOf(sec))

formatTime(hours) ==
    IF ~hours.finite \/ Negative(hours) THEN NotAvailable
    ELSE LET totalSec == MathRound(Times3600(hours))
             h == Remainder(FloorDiv(totalSec, 3600), 24)
             rem == Minus(totalSec, Times(FloorDiv(totalSec, 3600), 3600))
             m == FloorDiv(rem, 60)
             sec == Minus(rem, Times(m, 60))
         IN  PadStart2(StringOf(h)) \o <<":">> \o PadStart2(StringOf(m))
                \o <<":">> \o PadStart2(StringOf(sec))

\* Faulty variant: azimuth read at azimuth_astro's offset.
ReadFields_AzimuthFromAstro(struct) ==
    [n \in ResultNames |->
        IF n = "azimuth" THEN struct[OFFSET.azimuth_astro] ELSE struct[OFFSET[n]]]

\* readResult's ten getValue calls.
ReadFields(struct) == [n \in ResultNames |-> struct[OFFSET[n]]]

NoResult == [n \in ResultNames |-> 0]

\* solar-spa.js: the module object right after require('./spa.js'), its
\* runtime still loading and no onRuntimeInitialized callback assigned
\* (0; otherwise the call whose closure the property holds).
NotLoaded == [initialized |-> FALSE, onRuntimeInitialized |-> 0]
NoArgs == <<>>

IdleCall ==
    [kind |-> "none", pc |-> "idle", on |-> 0, in |-> NoInput, args |-> NoArgs,
     ptr |-> 0, reads |-> 0, freed |-> 0, result |-> NoResult, err |-> "",
     code |-> 0, formatted |-> NoResult, text |-> <<>>, work |-> NoWork]

Init ==
    /\ module = FALSE
    /\ pending = 0
    /\ calculate = FALSE
    /\ free = FALSE
    /\ stage = [k \in Attempts |-> "unused"]
    /\ factoryCalls = 0
    /\ cwrapCalls = 0
    /\ calls = [c \in CallIds |-> IdleCall]
    /\ running = 0
    /\ allocated = {}
    /\ mem = [p \in Ptrs |-> ZeroStruct]
    /\ frame = ZeroFrame
    /\ spaModule = NotLoaded

\* A new call takes the next unused call record, and only when no job runs.
CanStart(c) ==
    /\ running = 0
    /\ calls[c].kind = "none"
    /\ \A b \in CallIds : b < c => calls[b].kind # "none"

\* Faulty variant: init() without its 'if (_module) return' line.
StartsInit_IgnoresModule == pending = 0

\* Faulty variant: init() without its 'if (_pending) return _pending' line.
StartsInit_IgnoresPending == ~module

\* What init() returns as the state stands: 0 for Promise.resolve(), the
\* pending initialisation, or a new one.
StartsInit == ~module /\ pending = 0
InitPromise == IF module THEN 0 ELSE IF StartsInit THEN factoryCalls + 1 ELSE pending

\* init(): lines 52-69.  A new initialisation calls createSpaModule() and
\* stores the promise of the .then().catch() chain in _pending.
InitBody ==
    IF StartsInit
    THEN /\ factoryCalls < MaxAttempts
         /\ factoryCalls' = factoryCalls + 1
         /\ stage' = [stage EXCEPT ![factoryCalls + 1] = "loading"]
         /\ pending' = factoryCalls + 1
    ELSE UNCHANGED <<factoryCalls, stage, pending>>

\* A caller invokes init() and keeps the promise it returns.
InitCall(c) ==
    /\ CanStart(c)
    /\ InitBody
    /\ calls' = [calls EXCEPT ![c] =
                    [IdleCall EXCEPT !.kind = "init", !.pc = "awaiting",
                                     !.on = InitPromise]]
    /\ UNCHANGED <<spaModule, module, calculate, free, cwrapCalls, running, allocated, mem,
                   frame>>

\* spa(date, latitude, longitude, options) up to 'await init()': a failed
\* check rejects the call at once; otherwise init() runs and the call waits.
SpaEntry(c, in, kind) ==
    /\ CanStart(c)
    /\ IF Validate(in) # ""
       THEN /\ calls' = [calls EXCEPT ![c] =
                            [IdleCall EXCEPT !.kind = kind, !.pc = "rejected",
                                             !.in = in, !.err = Validate(in)]]
            /\ UNCHANGED <<factoryCalls, stage, pending>>
       ELSE /\ InitBody
            /\ calls' = [calls EXCEPT ![c] =
                            [IdleCall EXCEPT !.kind = kind, !.pc = "awaiting",
                                             !.in = in, !.on = InitPromise]]
    /\ UNCHANGED <<spaModule, module, calculate, free, cwrapCalls, running, allocated, mem,
                   frame>>

SpaCall(c, in) == SpaEntry(c, in, "spa")

\* spaFormatted(date, latitude, longitude, options), line 202: it calls spa()
\* with its own arguments and waits for it.
SpaFormattedCall(c, in) == SpaEntry(c, in, "spaFormatted")

\* The calls that run spa()'s body.
RunsSpa(c) == calls[c].kind \in {"spa", "spaFormatted"}

\* createSpaModule()'s promise fulfils: the .then callback is queued.
FactoryResolve(k) ==
    /\ running = 0
    /\ stage[k] = "loading"
    /\ stage' = [stage EXCEPT ![k] = "loaded"]
    /\ UNCHANGED <<spaModule, module, pending, calculate, free, factoryCalls, cwrapCalls,
                   calls, running, allocated, mem, frame>>

\* createSpaModule()'s promise rejects: .then passes the rejection on and
\* the .catch callback is queued.
FactoryReject(k) ==
    /\ running = 0
    /\ stage[k] = "loading"
    /\ stage' = [stage EXCEPT ![k] = "failing"]
    /\ UNCHANGED <<spaModule, module, pending, calculate, free, factoryCalls, cwrapCalls,
                   calls, running, allocated, mem, frame>>

\* The .then callback, lines 55-63.  mod.cwrap is the module's code and may
\* throw; threw is the number of the cwrap call that does, 0 when none.
InitThen(k, threw) ==
    /\ running = 0
    /\ stage[k] = "loaded"
    /\ module' = TRUE
    /\ calculate' = (calculate \/ threw # 1)
    /\ free' = (free \/ threw = 0)
    /\ cwrapCalls' = cwrapCalls + (IF threw = 1 THEN 1 ELSE 2)
    /\ pending' = (IF threw = 0 THEN 0 ELSE pending)
    /\ stage' = [stage EXCEPT ![k] = IF threw = 0 THEN "fulfilled" ELSE "failing"]
    /\ UNCHANGED <<spaModule, factoryCalls, calls, running, allocated, mem, frame>>

\* The .catch callback, lines 64-67: clears _pending and rethrows.
InitCatch(k) ==
    /\ running = 0
    /\ stage[k] = "failing"
    /\ pending' = 0
    /\ stage' = [stage EXCEPT ![k] = "rejected"]
    /\ UNCHANGED <<spaModule, module, calculate, free, factoryCalls, cwrapCalls, calls,
                   running, allocated, mem, frame>>

\* The promise a call waits on has settled this way.
Settled(c, how) ==
    /\ calls[c].pc = "awaiting"
    /\ IF calls[c].on = 0 THEN how = "fulfilled" ELSE stage[calls[c].on] = how

\* The promise init() returned fulfils for its caller.
InitResolved(c) ==
    /\ running = 0
    /\ calls[c].kind = "init"
    /\ Settled(c, "fulfilled")
    /\ calls' = [calls EXCEPT ![c].pc = "resolved"]
    /\ UNCHANGED <<spaModule, module, pending, calculate, free, stage, factoryCalls,
                   cwrapCalls, running, allocated, mem, frame>>

\* The promise rejects: init()'s caller sees the rejection, and 'await init()'
\* throws it out of spa().
AwaitRejected(c) ==
    /\ running = 0
    /\ Settled(c, "rejected")
    /\ calls' = [calls EXCEPT ![c].pc = "rejected", ![c].err = "InitError"]
    /\ UNCHANGED <<spaModule, module, pending, calculate, free, stage, factoryCalls,
                   cwrapCalls, running, allocated, mem, frame>>

\* malloc(sizeof(spa_result)): the lowest free block.
Malloc == CHOOSE p \in Ptrs \ allocated : \A q \in Ptrs \ allocated : p <= q

\* spa() resumes after 'await init()' and runs lines 153-175: the options
\* are defaulted and _calculate is called.  A null binding throws out of the
\* call; malloc may fail, and the wrapper then returns NULL at once.
Calculate(c, mallocOk) ==
    /\ running = 0
    /\ RunsSpa(c)
    /\ Settled(c, "fulfilled")
    /\ IF ~calculate
       THEN /\ calls' = [calls EXCEPT ![c].pc = "rejected", ![c].err = "NullBinding"]
            /\ UNCHANGED <<running, allocated, mem, frame>>
       ELSE IF ~mallocOk
       THEN /\ calls' = [calls EXCEPT ![c].pc = "read", ![c].ptr = 0,
                                      ![c].args = SpaArgs(calls[c].in)]
            /\ running' = c
            /\ UNCHANGED <<allocated, mem, frame>>
       ELSE \E before \in Indeterminate(frame) :
              LET w == spa_calculate_wrapper(SpaArgs(calls[c].in), before)
              IN  /\ calls' = [calls EXCEPT ![c].pc = "read", ![c].ptr = Malloc,
                                            ![c].args = SpaArgs(calls[c].in),
                                            ![c].work = w.work]
                  /\ running' = c
                  /\ allocated' = allocated \cup {Malloc}
                  /\ mem' = [mem EXCEPT ![Malloc] = w.struct]
                  /\ frame' = w.spa
    /\ UNCHANGED <<spaModule, module, pending, calculate, free, stage, factoryCalls,
                   cwrapCalls>>

\* Faulty variant: spa() without its 'if (!ptr)' lines, reading the ten
\* fields at address 0 (zeros) and going on to free.
ReadResult_NoNullCheck(c) ==
    /\ running = c
    /\ calls[c].pc = "read"
    /\ calls' = [calls EXCEPT ![c].pc = "free",
                              ![c].result = IF calls[c].ptr = 0 THEN NoResult
                                            ELSE ReadFields(mem[calls[c].ptr]),
                              ![c].reads = Cardinality(ResultNames)]
    /\ UNCHANGED <<spaModule, module, pending, calculate, free, stage, factoryCalls,
                   cwrapCalls, running, allocated, mem, frame>>

\* Lines 177-181 and readResult's lines 95-107: the null check, then the
\* ten getValue reads.
ReadResult(c) ==
    /\ running = c
    /\ calls[c].pc = "read"
    /\ IF calls[c].ptr = 0
       THEN /\ calls' = [calls EXCEPT ![c].pc = "rejected", ![c].err = "AllocError"]
            /\ running' = 0
       ELSE /\ calls' = [calls EXCEPT ![c].pc = "free",
                                      ![c].result = ReadFields(mem[calls[c].ptr]),
                                      ![c].reads = Cardinality(ResultNames)]
            /\ UNCHANGED running
    /\ UNCHANGED <<spaModule, module, pending, calculate, free, stage, factoryCalls,
                   cwrapCalls, allocated, mem, frame>>

\* readResult's line 108, _free(ptr), and spa_free_result in the wrapper.
FreeResult(c) ==
    /\ running = c
    /\ calls[c].pc = "free"
    /\ IF ~free
       THEN /\ calls' = [calls EXCEPT ![c].pc = "rejected", ![c].err = "NullBinding"]
            /\ running' = 0
            /\ UNCHANGED allocated
       ELSE /\ calls' = [calls EXCEPT ![c].pc = "check",
                                      ![c].freed = calls[c].freed + 1]
            /\ allocated' = allocated \ {calls[c].ptr}
            /\ UNCHANGED running
    /\ UNCHANGED <<spaModule, module, pending, calculate, free, stage, factoryCalls,
                   cwrapCalls, mem, frame>>

\* Faulty variant: the error code is never looked at.
CalculationFailed_Never(result) == FALSE

\* Line 183: result.error_code !== 0
CalculationFailed(result) == result.error_code # 0

\* Lines 183-187: a non-zero error code is thrown, else the result returned.
Finish(c) ==
    /\ running = c
    /\ calls[c].pc = "check"
    /\ IF CalculationFailed(calls[c].result)
       THEN calls' = [calls EXCEPT ![c].pc = "rejected", ![c].err = "CalcError",
                                   ![c].code = calls[c].result.error_code]
       ELSE calls' = [calls EXCEPT ![c].pc = IF calls[c].kind = "spaFormatted"
                                             THEN "format" ELSE "resolved"]
    /\ running' = 0
    /\ UNCHANGED <<spaModule, module, pending, calculate, free, stage, factoryCalls,
                   cwrapCalls, allocated, mem, frame>>

\* The times of a result are doubles on a tick.
TimeNames == {"sunrise", "sunset", "suntransit"}

\* Faulty variant: sunrise and sunset formatted from each other's value.
FormatResult_SwapsRiseSet(result) ==
    [n \in ResultNames |->
        IF n = "sunrise" THEN formatTime(Exact(result.sunset))
        ELSE IF n = "sunset" THEN formatTime(Exact(result.sunrise))
        ELSE IF n = "suntransit" THEN formatTime(Exact(result.suntransit))
        ELSE result[n]]

\* Lines 203-214: the object spaFormatted returns.
FormatResult(result) ==
    [n \in ResultNames |->
        IF n \in TimeNames THEN formatTime(Exact(result[n])) ELSE result[n]]

\* spaFormatted resumes after 'await spa(...)' with spa()'s result.
Format(c) ==
    /\ running = 0
    /\ calls[c].pc = "format"
    /\ calls' = [calls EXCEPT ![c].pc = "resolved",
                              ![c].formatted = FormatResult(calls[c].result)]
    /\ UNCHANGED <<spaModule, module, pending, calculate, free, stage, factoryCalls,
                   cwrapCalls, running, allocated, mem, frame>>

\* formatTime(hours): synchronous, it touches nothing but its own result.
FormatTimeCall(c, hours) ==
    /\ CanStart(c)
    /\ calls' = [calls EXCEPT ![c] =
                    [IdleCall EXCEPT !.kind = "formatTime", !.pc = "resolved",
                                     !.in = hours, !.text = formatTime(hours)]]
    /\ UNCHANGED <<spaModule, module, pending, calculate, free, stage, factoryCalls,
                   cwrapCalls, running, allocated, mem, frame>>

(***************************************************************************)
(* solar-spa.js, the positional spa() of version 1.                        *)
(***************************************************************************)
LegacyDefaultElevation == 0
LegacyDefaultTemperature == 20
LegacyDefaultPressure == 101325
LegacyDefaultRefraction == 5667

\* A positional argument, or its default when the caller passed fewer.
Positional(rest, i, dflt) == IF i <= Len(rest) THEN rest[i] ELSE dflt

\* Lines 36-50: the fifteen arguments of spa_calculate(...), in call order.
\* rest is what the caller passed after longitude: elevation, temperature,
\* pressure, refraction.
LegacyArgs(in) ==
    LET d == in.date
    IN  <<d.year, d.month + 1, d.date, d.hours, d.minutes, d.seconds,
          (0 - d.tzOffset) \div 60,
          in.latitude, in.longitude,
          Positional(in.rest, 1, LegacyDefaultElevation),
          Positional(in.rest, 3, LegacyDefaultPressure),
          Positional(in.rest, 2, LegacyDefaultTemperature),
          0, 0,
          Positional(in.rest, 4, LegacyDefaultRefraction)>>

\* Lines 52-60: the result object, each name with the offset it is read at.
LegacyResult ==
    [zenith |-> 0, azimuth |-> 8, incidence |-> 16, sunrise |-> 24,
     sunset |-> 32, solar_noon |-> 40, sun_transit_alt |-> 48]

\* Line 19: what spaModule.onRuntimeInitialized holds after spa() ran, the
\* closure of this call whatever was there.
LegacyHandler(c) == c

\* spa(date, latitude, longitude, ...), lines 9-67: the promise's executor
\* assigns the callback and returns; the promise is pending.
LegacyCall(c, in) ==
    /\ CanStart(c)
    /\ calls' = [calls EXCEPT ![c] =
                    [IdleCall EXCEPT !.kind = "legacy", !.pc = "pending", !.in = in]]
    /\ spaModule' = [spaModule EXCEPT !.onRuntimeInitialized = LegacyHandler(c)]
    /\ UNCHANGED <<module, pending, calculate, free, stage, factoryCalls,
                   cwrapCalls, running, allocated, mem, frame>>

\* The Emscripten runtime finishes loading, once, and calls the callback
\* the module object holds at that moment, if any: lines 20-64, the two
\* cwrap calls, the calculation, the seven reads, the free and resolve().
RuntimeInitialized ==
    /\ running = 0
    /\ ~spaModule.initialized
    /\ spaModule' = [spaModule EXCEPT !.initialized = TRUE]
    /\ LET c == spaModule.onRuntimeInitialized
       IN  IF c = 0
           THEN UNCHANGED <<calls, cwrapCalls>>
           ELSE /\ calls' = [calls EXCEPT ![c].pc = "resolved",
                                          ![c].args = LegacyArgs(calls[c].in),
                                          ![c].result = LegacyResult,
                                          ![c].reads = 7,
                                          ![c].freed = 1]
                /\ cwrapCalls' = cwrapCalls + 2
    /\ UNCHANGED <<module, pending, calculate, free, stage, factoryCalls,
                   running, allocated, mem, frame>>

(***************************************************************************)
(* The calls the model makes.                                              *)
(***************************************************************************)
Jan1 == DateOf(2023, 0, 1, 12, 0, 0, 300)
Jul1 == DateOf(2023, 6, 1, 12, 0, 0, 240)
Jun21East == DateOf(2025, 5, 21, 12, 0, 0, -60)
Year6001 == DateOf(6001, 5, 21, 12, 0, 0, 0)
Year6000 == DateOf(6000, 5, 21, 12, 0, 0, 0)
YearMinus2001 == DateOf(-2001, 5, 21, 12, 0, 0, 0)
Dec31 == DateOf(2024, 11, 31, 23, 58, 59, -660)

\* Every option set, no two arguments of the call alike.
DistinctOptions ==
    [timezone |-> 10, elevation |-> 250, pressure |-> 90000, temperature |-> 25,
     delta_ut1 |-> -1, delta_t |-> 69, slope |-> 20, azm_rotation |-> 45,
     atmos_refract |-> 6000, function |-> SPA_ZA_RTS]

\* Concurrent calls: two places in time, all outputs and zenith/azimuth only.
ApiInputs ==
    {Input(Jan1, Num(40), Num(-74), TRUE, [timezone |-> -5]),
     Input(Jul1, Num(40), Num(-74), TRUE, [timezone |-> -4, function |-> SPA_ZA])}

Next ==
    \/ \E c \in CallIds : InitCall(c)
    \/ \E c \in CallIds, in \in ApiInputs : SpaCall(c, in)
    \/ \E k \in Attempts : FactoryResolve(k)
    \/ \E k \in Attempts : FactoryReject(k)
    \/ \E k \in Attempts, threw \in 0..2 : InitThen(k, threw)
    \/ \E k \in Attempts : InitCatch(k)
    \/ \E c \in CallIds : InitResolved(c)
    \/ \E c \in CallIds : AwaitRejected(c)
    \/ \E c \in CallIds : Calculate(c, TRUE)
    \/ \E c \in CallIds : ReadResult(c)
    \/ \E c \in CallIds : FreeResult(c)
    \/ \E c \in CallIds : Finish(c)

Spec == Init /\ [][Next]_vars

\* The jobs the event loop has queued, the resumption of spa() after
\* 'await init()' apart: promise reactions and the later steps of a call.
Jobs ==
    \/ \E k \in Attempts : FactoryResolve(k)
    \/ \E k \in Attempts : FactoryReject(k)
    \/ \E k \in Attempts, threw \in 0..2 : InitThen(k, threw)
    \/ \E k \in Attempts : InitCatch(k)
    \/ \E c \in CallIds : InitResolved(c)
    \/ \E c \in CallIds : AwaitRejected(c)
    \/ \E c \in CallIds : ReadResult(c)
    \/ \E c \in CallIds : FreeResult(c)
    \/ \E c \in CallIds : Finish(c)

\* spa() is due to resume after 'await init()': Calculate(c, TRUE) is
\* enabled.
CalculateQueued(c) == running = 0 /\ RunsSpa(c) /\ Settled(c, "fulfilled")

\* The event loop runs every job it has queued, and the factory's promise
\* settles.  A call resumes after its await once only, so weak fairness
\* for that step says that it does not stay queued for ever.
SpecLive ==
    /\ Spec
    /\ WF_vars(Jobs)
    /\ \A c \in CallIds : []<>~CalculateQueued(c)

(***************************************************************************)
(* One spa() call over a wide range of arguments, on a fresh module or on  *)
(* one that earlier calls initialised and used; malloc may fail.           *)
(***************************************************************************)
Latitudes == {NotANumber, Undefined, NaN, Infinity,
              Num(-91), Num(-90), Num(40), Num(90), Num(91)}
Longitudes == {NotANumber, Undefined, NaN, Infinity,
               Num(-181), Num(-180), Num(-74), Num(180), Num(181)}

ZeroOptions == [n \in OptionNames |-> 0]
SampleOptions ==
    [timezone |-> 1, elevation |-> 10, pressure |-> 82000, temperature |-> 11,
     delta_ut1 |-> 1, delta_t |-> 64, slope |-> 30, azm_rotation |-> -10,
     atmos_refract |-> 10000, function |-> SPA_ZA_INC]

Only(opts, names) == [n \in names |-> opts[n]]

OptionObjects ==
    {NoOptions, ZeroOptions, SampleOptions}
        \cup {Only(ZeroOptions, {n}) : n \in OptionNames}
        \cup {Only(SampleOptions, {n}) : n \in OptionNames}
        \cup {[function |-> fn] : fn \in {SPA_ZA, SPA_ZA_INC, SPA_ZA_RTS, SPA_ALL}}
        \cup {[timezone |-> 100], [timezone |-> -7, pressure |-> 600000]}

\* Options on and just past the engine's bounds, one at a time, and several
\* out of range at once.
EdgeOptions ==
    {[timezone |-> 18], [timezone |-> -19],
     [elevation |-> -6500000], [elevation |-> -6500001],
     [pressure |-> 500000], [pressure |-> 500001], [pressure |-> -1],
     [temperature |-> -273], [temperature |-> -274], [temperature |-> 6001],
     [delta_ut1 |-> 1], [delta_ut1 |-> -2],
     [delta_t |-> -8000], [delta_t |-> 8001],
     [slope |-> 360], [slope |-> -361],
     [azm_rotation |-> -360], [azm_rotation |-> 361],
     [atmos_refract |-> 50000], [atmos_refract |-> -50001],
     [slope |-> 400, function |-> SPA_ZA],
     [timezone |-> 100, pressure |-> 600000, delta_t |-> 9000]}

ArgInputs ==
    {Input(d, lat, lon, FALSE, NoOptions) :
        d \in {NotADate, InvalidDate, Jan1}, lat \in Latitudes, lon \in Longitudes}
        \cup {Input(d, Num(40), Num(-74), TRUE, o) :
                d \in {Jan1, Jun21East}, o \in OptionObjects}
        \cup {Input(Jan1, Num(40), Num(-74), TRUE, o) : o \in EdgeOptions}
        \cup {Input(d, Num(30), Num(0), TRUE, [timezone |-> 0]) :
                d \in {Year6000, YearMinus2001}}
        \cup {Input(Year6001, Num(30), Num(0), TRUE, [timezone |-> 0, delta_t |-> 0]),
              Input(Jun21East, Num(70), Num(19), TRUE,
                    [timezone |-> 2, function |-> SPA_ZA_RTS]),
              Input(Dec31, Num(-33), Num(151), TRUE, DistinctOptions),
              Input(Dec31, Num(-33), Num(151), FALSE, NoOptions)}

\* The module after earlier calls: initialised once, the last of them an
\* all-outputs calculation whose struct was freed.
WarmArgs == SpaArgs(Input(Jul1, Num(40), Num(-74), TRUE, [timezone |-> -4]))
WarmRun == spa_calculate_wrapper(WarmArgs, ZeroFrame)

WarmModule ==
    /\ module = TRUE
    /\ pending = 0
    /\ calculate = TRUE
    /\ free = TRUE
    /\ stage = [k \in Attempts |-> IF k = 1 THEN "fulfilled" ELSE "unused"]
    /\ factoryCalls = 1
    /\ cwrapCalls = 2
    /\ calls = [c \in CallIds |-> IdleCall]
    /\ running = 0
    /\ allocated = {}
    /\ mem = [p \in Ptrs |-> IF p = 1 THEN WarmRun.struct ELSE ZeroStruct]
    /\ frame = WarmRun.spa
    /\ spaModule = NotLoaded

InitArgs == Init \/ WarmModule

NextArgs ==
    \/ \E in \in ArgInputs : SpaCall(1, in)
    \/ \E in \in ArgInputs : SpaFormattedCall(1, in)
    \/ Format(1)
    \/ \E k \in Attempts : FactoryResolve(k)
    \/ \E k \in Attempts : FactoryReject(k)
    \/ \E k \in Attempts, threw \in 0..2 : InitThen(k, threw)
    \/ \E k \in Attempts : InitCatch(k)
    \/ AwaitRejected(1)
    \/ \E mallocOk \in BOOLEAN : Calculate(1, mallocOk)
    \/ ReadResult(1)
    \/ FreeResult(1)
    \/ Finish(1)

SpecArgs == InitArgs /\ [][NextArgs]_vars

(***************************************************************************)
(* Two spa() calls on an initialised module, over the four function codes  *)
(* at two dates.                                                           *)
(***************************************************************************)
CodeInputs ==
    {Input(d, Num(40), Num(-74), TRUE, [timezone |-> -5, function |-> fn]) :
        d \in {Jan1, Jun21East}, fn \in {SPA_ZA, SPA_ZA_INC, SPA_ZA_RTS, SPA_ALL}}

NextCodes ==
    \E c \in {1, 2} :
        \/ \E in \in CodeInputs : SpaCall(c, in)
        \/ Calculate(c, TRUE)
        \/ ReadResult(c)
        \/ FreeResult(c)
        \/ Finish(c)

SpecCodes == WarmModule /\ [][NextCodes]_vars

(***************************************************************************)
(* formatTime on its own: two calls over times around the second, the      *)
(* minute, the hour and the day, the same times a day later, and the       *)
(* numbers that are no times.                                              *)
(***************************************************************************)
HourTicks ==
    {-14400, -1, 0, 1, 2, 3, 240, 14398, 93600, 345598, 345599, 345600,
     345601, 345602, 345603, 345840, 359998, 439200, 691198, 691200}

HoursInputs ==
    {NaN, Infinity, NegInfinity, Big}
        \cup {Exact(v) : v \in HourTicks}
        \cup {Double(v, side, snap) :
                v \in HourTicks, side \in {-1, 1}, snap \in BOOLEAN}

NextFormat == \E c \in {1, 2}, hours \in HoursInputs : FormatTimeCall(c, hours)

SpecFormat == Init /\ [][NextFormat]_vars

(***************************************************************************)
(* solar-spa.js: calls before and after the runtime has loaded.  The       *)
(* runtime does finish loading: the WASM binary is compiled and            *)
(* instantiated by the engine whatever the caller does.                    *)
(***************************************************************************)
April1 == DateOf(2023, 3, 1, 0, 0, 0, 240)

LegacyInput(date, lat, lon, rest) ==
    [date |-> date, latitude |-> lat, longitude |-> lon, rest |-> rest]

LegacyInputs ==
    {LegacyInput(April1, 40, -74, <<10, 20, 101325, 5667>>),
     LegacyInput(April1, 40, -74, <<>>),
     LegacyInput(Jan1, 51, 0, <<35>>),
     LegacyInput(Jul1, -33, 151, <<0, 25>>)}

NextLegacy ==
    \/ \E c \in CallIds, in \in LegacyInputs : LegacyCall(c, in)
    \/ RuntimeInitialized

SpecLegacy == Init /\ [][NextLegacy]_vars /\ WF_vars(RuntimeInitialized)

(***************************************************************************)
(* Properties.                                                             *)
(***************************************************************************)
Started(c) == calls[c].kind # "none"
SpaCalls == {c \in CallIds : calls[c].kind = "spa"}
Done(c) == calls[c].pc \in {"resolved", "rejected"}
NoInitFailed == \A k \in Attempts : stage[k] \notin {"failing", "rejected"}
EngineInput(c) == SpaData(calls[c].args)
FunctionCode(c) == calls[c].args[Len(SpaInputNames)]

\* C1: as long as no initialisation has failed, createSpaModule has been
\* invoked at most once, whatever the interleaving of init() and spa()
\* calls: every call that was handed a pending promise was handed the one
\* of that single initialisation, and the others were handed
\* Promise.resolve() and started nothing.
C1_FactoryInvokedOnce ==
    NoInitFailed =>
        /\ factoryCalls <= 1
        /\ \A c \in CallIds : Started(c) => calls[c].on \in {0, 1}
        /\ \A c \in CallIds : Started(c) /\ calls[c].on = 0 /\ calls[c].pc = "awaiting"
                                => module

\* Three calls: two joined the initialisation in flight, one came after it
\* succeeded.
C1_Witness ==
    /\ NoInitFailed
    /\ factoryCalls = 1
    /\ \E a, b, c \in CallIds :
          /\ a # b
          /\ calls[a].pc = "awaiting" /\ calls[a].on = 1
          /\ calls[b].pc = "awaiting" /\ calls[b].on = 1
          /\ calls[c].pc = "awaiting" /\ calls[c].on = 0

\* C2: a failed initialisation leaves its promise rejected and _pending
\* no longer holding it, and the next init() or spa() call that gets as far
\* as init() after the failure invokes createSpaModule again and waits on
\* the new initialisation.
C2_RetriesAfterFailure ==
    [][/\ \A k \in Attempts : stage'[k] = "rejected" => pending' # k
       /\ \A c \in CallIds :
            (/\ factoryCalls > 0
             /\ stage[factoryCalls] = "rejected"
             /\ ~Started(c)
             /\ calls'[c].pc = "awaiting")
            => (factoryCalls' = factoryCalls + 1 /\ calls'[c].on = factoryCalls')]_vars

\* C3: a resolved spa() never carries a non-zero error_code; a call whose
\* engine run returned a non-zero code is rejected with an Error that
\* carries that code.
C3_ResolvedMeansCodeZero ==
    \A c \in SpaCalls :
        /\ calls[c].pc = "resolved" => calls[c].result.error_code = 0
        /\ (Done(c) /\ calls[c].freed = 1 /\ validate_inputs(EngineInput(c)) # 0)
            => /\ calls[c].pc = "rejected"
               /\ calls[c].err = "CalcError"
               /\ calls[c].code = validate_inputs(EngineInput(c))

\* timezone 100: the engine returned 8 and the call rejected with it.
C3_Witness ==
    \E c \in SpaCalls :
        /\ calls[c].pc = "rejected" /\ calls[c].err = "CalcError"
        /\ calls[c].code = 8
        /\ calls[c].freed = 1

\* The cases of C4, read off the arguments.
C4_BadDate(in) == ~in.date.isDate \/ ~in.date.valid
C4_NotFinite(x) == x.type # "number" \/ ~x.finite
C4_TypeCase(in) ==
    C4_BadDate(in) \/ C4_NotFinite(in.latitude) \/ C4_NotFinite(in.longitude)
C4_RangeCase(in) ==
    \/ in.latitude.v < -90 \/ in.latitude.v > 90
    \/ in.longitude.v < -180 \/ in.longitude.v > 180

\* C4: a spa() call whose date is no valid Date, or whose latitude or
\* longitude is no finite number, rejects with TypeError; a call that
\* passes those checks rejects with RangeError exactly when latitude is
\* outside [-90, 90] or longitude outside [-180, 180], the bounds
\* themselves being accepted; and a call rejected this way starts no
\* initialisation and never reaches the wrapper.
C4_RejectsBeforeWasm ==
    [][\A c \in CallIds :
         (~Started(c) /\ calls'[c].kind = "spa") =>
           LET in == calls'[c].in
               rejectedAs(e) == calls'[c].pc = "rejected" /\ calls'[c].err = e
           IN  /\ C4_TypeCase(in) => rejectedAs("TypeError")
               /\ ~C4_TypeCase(in) => (rejectedAs("RangeError") <=> C4_RangeCase(in))
               /\ ~C4_TypeCase(in) /\ ~C4_RangeCase(in) => calls'[c].pc = "awaiting"
               /\ (C4_TypeCase(in) \/ C4_RangeCase(in)) =>
                    /\ calls'[c].args = NoArgs /\ calls'[c].ptr = 0
                    /\ UNCHANGED <<module, pending, calculate, free, stage,
                                   factoryCalls, cwrapCalls, running, allocated,
                                   mem, frame>>]_vars

\* Latitude 91 was rejected with RangeError on a module nobody initialised.
C4_Witness ==
    \E c \in SpaCalls :
        /\ calls[c].pc = "rejected" /\ calls[c].err = "RangeError"
        /\ calls[c].in.latitude = Num(91)
        /\ factoryCalls = 0 /\ ~module

\* C5: when the wrapper returns a struct, its error_code is spa_calculate's
\* return code; if that is non-zero every double of the struct is 0; if it
\* is zero every double is the spa_data field of its name, which for the
\* outputs the function code computes is the engine's value.
C5_WrapperFillsStruct ==
    \A c \in SpaCalls :
        (running = c /\ calls[c].pc = "read" /\ calls[c].ptr # 0) =>
            LET st == mem[calls[c].ptr]
                spa == EngineInput(c)
                rc == validate_inputs(spa)
            IN  /\ st[StructOffset("error_code")] = rc
                /\ rc # 0 => \A n \in DoubleNames : st[StructOffset(n)] = 0
                /\ rc = 0 => \A n \in DoubleNames :
                      /\ st[StructOffset(n)] = frame[SpaField(n)]
                      /\ SpaField(n) \in Computes(spa.function)
                            => st[StructOffset(n)] = Engine(spa, SpaField(n))

\* A failed run over a stack that still held an earlier run's outputs.
C5_Witness ==
    \E c \in SpaCalls :
        /\ running = c /\ calls[c].pc = "read" /\ calls[c].ptr # 0
        /\ validate_inputs(EngineInput(c)) # 0
        /\ frame.sunrise # 0
        /\ mem[calls[c].ptr][StructOffset("sunrise")] = 0

\* C6: every finished spa() call that got a struct from the wrapper freed
\* it exactly once, after reading its ten fields; at most one struct is
\* allocated at any time, and none while no call is running.
C6_StructFreedOnce ==
    /\ \A c \in SpaCalls :
          (Done(c) /\ calls[c].ptr # 0)
            => (calls[c].freed = 1 /\ calls[c].reads = Cardinality(ResultNames))
    /\ Cardinality(allocated) <= 1
    /\ running = 0 => allocated = {}

\* C7: a result returned for SPA_ZA or SPA_ZA_INC has sunrise, sunset and
\* suntransit 0.
C7_NoRtsMeansZeros ==
    \A c \in SpaCalls :
        (calls[c].pc = "resolved" /\ FunctionCode(c) \in {SPA_ZA, SPA_ZA_INC})
            => /\ calls[c].result.sunrise = 0
               /\ calls[c].result.sunset = 0
               /\ calls[c].result.suntransit = 0

\* C8: every option the caller supplied reaches the engine unchanged, 0
\* included; an option left out reaches it as its default: elevation 0,
\* pressure 1013.25, temperature 15, delta_ut1 0, delta_t 67, slope 0,
\* azm_rotation 0, atmos_refract 0.5667, function 3, and timezone minus
\* the Date's offset in hours.
C8_OptionsAndDefaults ==
    \A c \in SpaCalls :
        calls[c].args # NoArgs =>
            LET in == calls[c].in
                o == IF in.hasOptions THEN in.options ELSE NoOptions
                spa == EngineInput(c)
                absent(n) == n \notin DOMAIN o
            IN  /\ \A n \in OptionNames : ~absent(n) => spa[n] = o[n]
                /\ absent("elevation") => spa.elevation = 0
                /\ absent("pressure") => spa.pressure = 101325
                /\ absent("temperature") => spa.temperature = 15
                /\ absent("delta_ut1") => spa.delta_ut1 = 0
                /\ absent("delta_t") => spa.delta_t = 67
                /\ absent("slope") => spa.slope = 0
                /\ absent("azm_rotation") => spa.azm_rotation = 0
                /\ absent("atmos_refract") => spa.atmos_refract = 5667
                /\ absent("function") => spa["function"] = 3
                /\ absent("timezone") => spa.timezone * 60 = 0 - in.date.tzOffset

\* { pressure: 0 } alone: the engine got pressure 0 and the other defaults.
C8_Witness ==
    \E c \in SpaCalls :
        /\ calls[c].args # NoArgs
        /\ calls[c].in.hasOptions
        /\ DOMAIN calls[c].in.options = {"pressure"}
        /\ calls[c].in.options["pressure"] = 0
        /\ EngineInput(c).pressure = 0
        /\ EngineInput(c).timezone = 1

\* The result of a successful calculation as its own arguments give it:
\* the engine's value for each output the function code computes, 0 for
\* the others.
OwnResult(in) ==
    LET spa == SpaData(SpaArgs(in))
    IN  [n \in ResultNames |->
            IF n # "error_code" /\ SpaField(n) \in Computes(spa.function)
            THEN Engine(spa, SpaField(n)) ELSE 0]

\* C9: every spa() call that resolves, whatever other calls were started
\* with it, resolves with the result of its own arguments; and the struct
\* a running call reads is the one its own calculation wrote.
C9_OwnArgumentsOwnResult ==
    \A c \in SpaCalls :
        calls[c].pc = "resolved" => calls[c].result = OwnResult(calls[c].in)

\* C10: two resolved spa() calls with the same arguments (timezone given)
\* have the same result.
C10_SameArgumentsSameResult ==
    \A c, d \in SpaCalls :
        (/\ calls[c].pc = "resolved" /\ calls[d].pc = "resolved"
         /\ calls[c].in = calls[d].in
         /\ "timezone" \in DOMAIN calls[c].in.options)
            => calls[c].result = calls[d].result

(***************************************************************************)
(* formatTime                                                              *)
(***************************************************************************)
FormatTimeCalls == {c \in CallIds : calls[c].kind = "formatTime"}
FiniteNotNegative(hours) == hours.finite /\ ~Negative(hours)

\* HH:MM:SS: two digits, colon, two digits, colon, two digits.
DigitSet == {Digits[i] : i \in 1..10}
IsClockString(str) ==
    /\ Len(str) = 8
    /\ str[3] = ":" /\ str[6] = ":"
    /\ \A i \in {1, 2, 4, 5, 7, 8} : str[i] \in DigitSet
TwoDigits(n) == <<Digits[(n \div 10) + 1], Digits[(n % 10) + 1]>>
Clock(hh, mm, ss) ==
    TwoDigits(hh) \o <<":">> \o TwoDigits(mm) \o <<":">> \o TwoDigits(ss)

\* C11: formatTime returns "N/A" exactly for the numbers that are not
\* finite or are negative, and an HH:MM:SS string for every finite number
\* that is not negative.
C11_NotAvailableOrClock ==
    \A c \in FormatTimeCalls :
        /\ calls[c].text = NotAvailable <=> ~FiniteNotNegative(calls[c].in)
        /\ FiniteNotNegative(calls[c].in) => IsClockString(calls[c].text)

\* hours * 3600 to the nearest whole second, halves upwards.
NearestSecond(hours) ==
    IF hours.v % TicksPerSecond = 2 /\ hours.side < 0 /\ ~hours.snap
    THEN hours.v \div TicksPerSecond
    ELSE (hours.v + 2) \div TicksPerSecond

\* C12: for every finite hours >= 0 formatTime returns two digits, colon,
\* two digits, colon, two digits, and with t the nearest whole second of
\* hours * 3600 they are floor(t / 3600) mod 24, floor((t mod 3600) / 60)
\* and t mod 60.
C12_HoursMinutesSeconds ==
    \A c \in FormatTimeCalls :
        FiniteNotNegative(calls[c].in) =>
            /\ IsClockString(calls[c].text)
            /\ ~calls[c].in.big =>
                 LET t == NearestSecond(calls[c].in)
                 IN  calls[c].text =
                        Clock((t \div 3600) % 24, (t % 3600) \div 60, t % 60)

\* h + 24 as a double: the sum keeps h's distance from its tick or loses it
\* to rounding, and its own product with 3600 may land on the tick or not.
Plus24(hours) ==
    IF ~hours.finite \/ hours.big THEN {hours}
    ELSE {Exact(hours.v + 24 * TicksPerHour)}
            \cup {Double(hours.v + 24 * TicksPerHour, hours.side, snap) :
                    snap \in {s \in BOOLEAN : hours.side # 0}}

FormattedCalls == {c \in CallIds : calls[c].kind = "spaFormatted"}
SpaErrors == {"TypeError", "RangeError", "InitError", "NullBinding", "AllocError",
             "CalcError"}

\* C14: spaFormatted rejects where spa() does and with spa()'s error (the
\* checks on the arguments, the engine's error code), hands spa() its own
\* arguments, and when spa() returned a result it resolves with that
\* result's zenith, azimuth_astro, azimuth, incidence, sun_transit_alt, eot
\* and error_code and with formatTime of its sunrise, sunset and suntransit.
C14_FormattedIsSpaFormatted ==
    \A c \in FormattedCalls :
        /\ Validate(calls[c].in) # ""
              => (calls[c].pc = "rejected" /\ calls[c].err = Validate(calls[c].in))
        /\ calls[c].pc = "rejected"
              => (calls[c].err \in SpaErrors /\ calls[c].formatted = NoResult)
        /\ calls[c].args # NoArgs => calls[c].args = SpaArgs(calls[c].in)
        /\ (Done(c) /\ calls[c].freed = 1 /\ calls[c].result.error_code # 0)
              => /\ calls[c].pc = "rejected" /\ calls[c].err = "CalcError"
                 /\ calls[c].code = calls[c].result.error_code
        /\ calls[c].pc = "resolved"
              => /\ calls[c].freed = 1 /\ calls[c].result.error_code = 0
                 /\ \A n \in ResultNames \ TimeNames :
                        calls[c].formatted[n] = calls[c].result[n]
                 /\ \A n \in TimeNames :
                        calls[c].formatted[n] = formatTime(Exact(calls[c].result[n]))
                 /\ \A n \in DoubleNames :
                        SpaField(n) \in Computes(FunctionCode(c))
                            => calls[c].result[n] = Engine(EngineInput(c), SpaField(n))

\* An all-outputs call away from the poles: three different clock strings
\* beside the angles spa() returned.
C14_Witness ==
    \E c \in FormattedCalls :
        /\ calls[c].pc = "resolved"
        /\ FunctionCode(c) = SPA_ALL
        /\ IsClockString(calls[c].formatted.sunrise)
        /\ IsClockString(calls[c].formatted.sunset)
        /\ calls[c].formatted.sunrise # calls[c].formatted.sunset
        /\ calls[c].formatted.zenith = calls[c].result.zenith
        /\ calls[c].result.zenith # 0

\* A time of day in ticks.
ValidTime(v) == 0 <= v /\ v <= 24 * TicksPerHour

C16_AzimuthConvention ==
    \A c \in CallIds :
        (RunsSpa(c) /\ calls[c].pc = "resolved") =>
            /\ calls[c].result.azimuth = (calls[c].result.azimuth_astro + 180) % 360
            /\ calls[c].result.azimuth_astro
                  = Engine(EngineInput(c), "azimuth_astro")
            /\ c \in FormattedCalls =>
                  calls[c].formatted.azimuth
                      = (calls[c].formatted.azimuth_astro + 180) % 360

\* A zenith/azimuth-only call whose astronomical azimuth is past 180, so
\* that the sum wraps.
C16_Witness ==
    \E c \in SpaCalls :
        /\ calls[c].pc = "resolved"
        /\ FunctionCode(c) = SPA_ZA
        /\ calls[c].result.azimuth_astro > 180
        /\ calls[c].result.azimuth = calls[c].result.azimuth_astro - 180

\* Two inputs that differ in the function code at most.
SameButFunction(in, other) ==
    /\ in.date = other.date
    /\ in.latitude = other.latitude
    /\ in.longitude = other.longitude
    /\ in.hasOptions = other.hasOptions
    /\ DOMAIN in.options = DOMAIN other.options
    /\ \A n \in DOMAIN in.options \ {"function"} : in.options[n] = other.options[n]

\* C17: two resolved spa() calls whose inputs differ in the function code
\* at most return the same zenith, azimuth and azimuth_astro, and the same
\* incidence when both codes compute it.
C17_FunctionCodesAgree ==
    \A c, d \in SpaCalls :
        (/\ calls[c].pc = "resolved" /\ calls[d].pc = "resolved"
         /\ SameButFunction(calls[c].in, calls[d].in))
            => /\ calls[c].result.zenith = calls[d].result.zenith
               /\ calls[c].result.azimuth = calls[d].result.azimuth
               /\ calls[c].result.azimuth_astro = calls[d].result.azimuth_astro
               /\ (RunsIncidence(FunctionCode(c)) /\ RunsIncidence(FunctionCode(d)))
                     => calls[c].result.incidence = calls[d].result.incidence

\* The same place and time asked for with SPA_ZA and with SPA_ALL.
C17_Witness ==
    \E c, d \in SpaCalls :
        /\ calls[c].pc = "resolved" /\ calls[d].pc = "resolved"
        /\ SameButFunction(calls[c].in, calls[d].in)
        /\ FunctionCode(c) = SPA_ZA /\ FunctionCode(d) = SPA_ALL
        /\ calls[c].result.zenith = calls[d].result.zenith
        /\ calls[d].result.sunrise = Engine(EngineInput(d), "sunrise")

\* The argument of a name in the list _calculate was called with.
ArgOf(a, name) == a[CHOOSE i \in 1..Len(SpaInputNames) : SpaInputNames[i] = name]

\* The bounds of the input fields, pressure in 1/100 mbar and atmos_refract
\* in 1/10000 degree.
WithinBound(a, name) ==
    LET x == ArgOf(a, name)
    IN  CASE name = "year" -> -2000 <= x /\ x <= 6000
          [] name = "month" -> 1 <= x /\ x <= 12
          [] name = "day" -> 1 <= x /\ x <= 31
          [] name = "hour" -> 0 <= x /\ x <= 24
          [] name = "minute" -> 0 <= x /\ x <= 59
          [] name = "second" -> 0 <= x /\ x < 60
          [] name = "timezone" -> -18 <= x /\ x <= 18
          [] name = "latitude" -> -90 <= x /\ x <= 90
          [] name = "longitude" -> -180 <= x /\ x <= 180
          [] name = "elevation" -> x >= -6500000
          [] name = "pressure" -> 0 <= x /\ x <= 500000
          [] name = "temperature" -> -273 <= x /\ x <= 6000
          [] name = "delta_ut1" -> -1 <= x /\ x <= 1
          [] name = "delta_t" -> -8000 <= x /\ x <= 8000
          [] name = "slope" -> -360 <= x /\ x <= 360
          [] name = "azm_rotation" -> -360 <= x /\ x <= 360
          [] name = "atmos_refract" -> -50000 <= x /\ x <= 50000
          [] OTHER -> TRUE
BoundedFields == {SpaInputNames[i] : i \in 1..Len(SpaInputNames)} \ {"function"}
OutOfBound(a) == {name \in BoundedFields : ~WithinBound(a, name)}

\* The wrapper has just returned a struct to call c.
WrapperReturned(c) ==
    RunsSpa(c) /\ running = c /\ calls[c].pc = "read" /\ calls[c].ptr # 0
ReturnedCode(c) == mem[calls[c].ptr][StructOffset("error_code")]

\* C18: whatever the function code, the engine returns 0 exactly when
\* every input field is within its bound, the bounds themselves included
\* (second below 60); when it returns a non-zero code it has stored no
\* output: the spa_data holds what it held before the call.
C18_ValidatesBeforeComputing ==
    \A c \in CallIds :
        WrapperReturned(c) =>
            /\ ReturnedCode(c) = 0 <=> OutOfBound(calls[c].args) = {}
            /\ ReturnedCode(c) # 0 => frame \in {ZeroFrame, WarmRun.spa}
            /\ ReturnedCode(c) = 0 =>
                  \A f \in Computes(FunctionCode(c)) :
                      frame[f] = Engine(EngineInput(c), f)

\* A zenith/azimuth-only call with slope 400: refused, the outputs of the
\* earlier call still in place.
C18_Witness ==
    \E c \in CallIds :
        /\ WrapperReturned(c)
        /\ FunctionCode(c) = SPA_ZA
        /\ OutOfBound(calls[c].args) = {"slope"}
        /\ ReturnedCode(c) # 0
        /\ frame = WarmRun.spa

\* The code of a field: its place in the order of the checks.
CodeOf(name) == CHOOSE i \in 1..Len(CheckOrder) : CheckOrder[i] = name

\* C19: every bounded field has a code of its own, none of them 0; the
\* code spa() rejects with is that of the first field out of bound in the
\* order of the checks, so with one field out of bound it names that field;
\* timezone 100 alone is reported as 8.
C19_CodeNamesTheField ==
    /\ \A f, g \in BoundedFields : CodeOf(f) # 0 /\ (f # g => CodeOf(f) # CodeOf(g))
    /\ \A c \in CallIds :
          (RunsSpa(c) /\ Done(c) /\ calls[c].freed = 1
              /\ OutOfBound(calls[c].args) # {})
            => /\ calls[c].pc = "rejected" /\ calls[c].err = "CalcError"
               /\ \E f \in OutOfBound(calls[c].args) :
                     /\ calls[c].code = CodeOf(f)
                     /\ \A g \in OutOfBound(calls[c].args) : CodeOf(f) <= CodeOf(g)
               /\ OutOfBound(calls[c].args) = {"timezone"} => calls[c].code = 8

\* Three fields out of bound at once: the call rejects with the code of
\* delta_t, which is checked before timezone and pressure.
C19_Witness ==
    \E c \in SpaCalls :
        /\ calls[c].pc = "rejected" /\ calls[c].err = "CalcError"
        /\ OutOfBound(calls[c].args) = {"timezone", "pressure", "delta_t"}
        /\ calls[c].code = CodeOf("delta_t")
        /\ calls[c].code < 8

(***************************************************************************)
(* init() once the module is there.                                        *)
(***************************************************************************)
InitSucceeded == \E k \in Attempts : stage[k] = "fulfilled"

\* C20: once an initialisation has succeeded the module and both bindings
\* are cached, and an init() call returns Promise.resolve() and leaves the
\* module, the bindings, the pending promise and the counts of factory and
\* cwrap invocations as they were.
C20_InitAfterSuccess ==
    [][\A c \in CallIds :
         (InitSucceeded /\ ~Started(c) /\ calls'[c].kind = "init") =>
            /\ module /\ calculate /\ free /\ pending = 0
            /\ calls'[c].on = 0
            /\ UNCHANGED <<module, calculate, free, pending, stage, factoryCalls,
                           cwrapCalls>>]_vars

\* The first initialisation failed and the second succeeded; an init()
\* call made after that has resolved without a third.
C20_Witness ==
    /\ factoryCalls = 2
    /\ stage[1] = "rejected" /\ stage[2] = "fulfilled"
    /\ cwrapCalls = 2
    /\ \E c \in CallIds :
          calls[c].kind = "init" /\ calls[c].on = 0 /\ calls[c].pc = "resolved"

(***************************************************************************)
(* Failures past the argument checks.                                      *)
(***************************************************************************)
\* C21: when the wrapper returns a null pointer it has stored nothing (the
\* heap and the spa_data left on the stack are as before the call), and
\* spa() then rejects with the allocation error, having read no field of
\* a result and freed nothing.
C21_NullPointerRejects ==
    [][\A c \in CallIds :
         /\ (calls[c].pc = "awaiting" /\ calls'[c].pc = "read" /\ calls'[c].ptr = 0)
               => UNCHANGED <<allocated, mem, frame>>
         /\ (RunsSpa(c) /\ calls[c].pc = "read" /\ calls[c].ptr = 0)
               => /\ calls'[c].pc = "rejected"
                  /\ calls'[c].err = "AllocError"
                  /\ calls'[c].reads = 0
                  /\ calls'[c].freed = 0
                  /\ calls'[c].result = NoResult
                  /\ UNCHANGED <<allocated, mem, frame>>]_vars

\* An allocation that failed on a module earlier calls had used: the call
\* is rejected and the stack still holds the earlier run's outputs.
C21_Witness ==
    \E c \in SpaCalls :
        /\ calls[c].pc = "rejected" /\ calls[c].err = "AllocError"
        /\ calls[c].args = SpaArgs(calls[c].in)
        /\ calls[c].reads = 0 /\ calls[c].freed = 0
        /\ allocated = {}
        /\ frame = WarmRun.spa

\* C22: whenever the cached module is non-null both bindings are non-null,
\* every init() caller whose promise fulfilled finds them so, and no spa()
\* call that got past 'await init()' has invoked a null binding.
C22_ModuleMeansBindings ==
    /\ module => (calculate /\ free)
    /\ \A c \in CallIds :
          (calls[c].kind = "init" /\ calls[c].pc = "resolved") => (calculate /\ free)
    /\ \A c \in CallIds : calls[c].err # "NullBinding"

(***************************************************************************)
(* The struct between the wrapper and readResult.                          *)
(***************************************************************************)
\* readResult has read the struct of call c, which still owns the thread.
HasRead(c) == RunsSpa(c) /\ running = c /\ calls[c].pc \in {"free", "check"}

\* C23: OFFSET gives each of the ten fields the offset and the type it has
\* in the C struct (zenith 0, azimuth_astro 8, azimuth 16, incidence 24,
\* sunrise 32, sunset 40, suntransit 48, sun_transit_alt 56, eot 64 as
\* doubles, error_code 72 as i32), and what readResult returns under a
\* name is what the wrapper stored in the member of that name: the return
\* code under error_code, and under each double the spa_data field of its
\* name when the code is 0, else 0.
C23_SameLayout ==
    /\ \A n \in ResultNames :
          OFFSET[n] = StructOffset(n) /\ ReadType[n] = StructType(n)
    /\ \A i \in 1..Len(ResultFields) : OFFSET[ResultFields[i]] = 8 * (i - 1)
    /\ \A c \in CallIds :
          HasRead(c) =>
            LET rc == validate_inputs(EngineInput(c))
            IN  /\ calls[c].result.error_code = rc
                /\ \A n \in DoubleNames :
                      calls[c].result[n] = IF rc = 0 THEN frame[SpaField(n)] ELSE 0

\* An all-outputs run read back: nine values, no two neighbours alike.
C23_Witness ==
    \E c \in SpaCalls :
        /\ HasRead(c)
        /\ FunctionCode(c) = SPA_ALL
        /\ calls[c].result.error_code = 0
        /\ calls[c].result.azimuth # calls[c].result.azimuth_astro
        /\ calls[c].result.sunrise # calls[c].result.sunset
        /\ calls[c].result.sunset # calls[c].result.suntransit
        /\ calls[c].result.sun_transit_alt = frame.sta
        /\ calls[c].result.zenith # calls[c].result.incidence

(***************************************************************************)
(* The arguments on their way to the engine.                               *)
(***************************************************************************)
\* What each engine field should hold for a call's arguments, by name.
Named(in) ==
    LET o == IF in.hasOptions THEN in.options ELSE NoOptions
        opt(n, dflt) == IF n \in DOMAIN o THEN o[n] ELSE dflt
    IN  [year |-> in.date.year, month |-> in.date.month + 1, day |-> in.date.date,
         hour |-> in.date.hours, minute |-> in.date.minutes,
         second |-> in.date.seconds,
         timezone |-> opt("timezone", 0 - (in.date.tzOffset \div 60)),
         latitude |-> in.latitude.v, longitude |-> in.longitude.v,
         elevation |-> opt("elevation", 0), pressure |-> opt("pressure", 101325),
         temperature |-> opt("temperature", 15), delta_ut1 |-> opt("delta_ut1", 0),
         delta_t |-> opt("delta_t", 67), slope |-> opt("slope", 0),
         azm_rotation |-> opt("azm_rotation", 0),
         atmos_refract |-> opt("atmos_refract", 5667),
         function |-> opt("function", 3)]

\* C24: spa() calls the wrapper with eighteen arguments in the order of
\* the wrapper's parameters, so that every engine field holds the input of
\* its name: the Date's year, month + 1 (1..12), day, hour, minute and
\* second, the timezone, latitude and longitude, the seven options that
\* follow, and the function code as the caller gave it.
C24_ArgumentsByName ==
    \A c \in CallIds :
        (RunsSpa(c) /\ calls[c].args # NoArgs) =>
            /\ Len(calls[c].args) = 18
            /\ \A i \in 1..18 :
                  calls[c].args[i] = Named(calls[c].in)[SpaInputNames[i]]
            /\ \A n \in DOMAIN Named(calls[c].in) :
                  EngineInput(c)[n] = Named(calls[c].in)[n]
            /\ EngineInput(c).month \in 1..12
            /\ ("function" \in DOMAIN calls[c].in.options /\ calls[c].in.hasOptions)
                  => EngineInput(c)["function"] = calls[c].in.options["function"]

\* The last day of December with every option given: eighteen different
\* arguments, month 12, and the call resolved.
C24_Witness ==
    \E c \in SpaCalls :
        /\ calls[c].pc = "resolved"
        /\ calls[c].in.date = Dec31
        /\ Cardinality({calls[c].args[i] : i \in 1..18}) = 18
        /\ EngineInput(c).month = 12
        /\ EngineInput(c).latitude = -33
        /\ EngineInput(c).longitude = 151

(***************************************************************************)
(* The work a function code asks for.                                      *)
(***************************************************************************)
\* The engine has run for call c and returned 0.
EngineRan(c) == WrapperReturned(c) /\ ReturnedCode(c) = 0
RtsOutputs == {"sunrise", "sunset", "suntransit", "sta"}

\* C25: in a successful run the rise/transit/set solver runs exactly when
\* the function code the caller gave is SPA_ZA_RTS or SPA_ALL, and
\* incidence is computed exactly when it is SPA_ZA_INC or SPA_ALL; SPA_ZA
\* evaluates the position once and does nothing else.  What is not
\* computed is not stored: those fields of spa_data hold what they held.
C25_FunctionCodeGatesWork ==
    \A c \in CallIds :
        EngineRan(c) =>
            LET fn == FunctionCode(c)
                work == calls[c].work
            IN  /\ work.solver # <<>> <=> fn \in {SPA_ZA_RTS, SPA_ALL}
                /\ work.incidence <=> fn \in {SPA_ZA_INC, SPA_ALL}
                /\ fn = SPA_ZA =>
                      work = [position |-> 1, incidence |-> FALSE, solver |-> <<>>]
                /\ \A f \in RtsOutputs :
                      IF fn \in {SPA_ZA_RTS, SPA_ALL}
                      THEN frame[f] = Engine(EngineInput(c), f)
                      ELSE frame[f] \in {0, WarmRun.spa[f]}
                /\ IF fn \in {SPA_ZA_INC, SPA_ALL}
                   THEN frame.incidence = Engine(EngineInput(c), "incidence")
                   ELSE frame.incidence \in {0, WarmRun.spa.incidence}

\* A zenith/azimuth-only run on a used module: one position evaluation, no
\* solver, and the earlier run's sunrise still on the stack.
C25_Witness ==
    \E c \in SpaCalls :
        /\ EngineRan(c)
        /\ FunctionCode(c) = SPA_ZA
        /\ calls[c].work.position = 1
        /\ frame.sunrise = WarmRun.spa.sunrise
        /\ frame.sunrise # Engine(EngineInput(c), "sunrise")
        /\ frame.zenith = Engine(EngineInput(c), "zenith")

\* The solver's run of call c.
Solver(c) == calls[c].work.solver

C29_EveryLegacyCallResolves ==
    \A c \in CallIds :
        [](calls[c].kind = "legacy" =>
              <>(/\ calls[c].pc = "resolved"
                 /\ DOMAIN calls[c].result =
                        {"zenith", "azimuth", "incidence", "sunrise", "sunset",
                         "solar_noon", "sun_transit_alt"}))

(***************************************************************************)
(* Every call settles.                                                     *)
(***************************************************************************)
\* The ways the claim lets a spa() call end.
SettledAsClaimed(c) ==
    \/ /\ calls[c].pc = "rejected"
       /\ calls[c].err \in {"TypeError", "RangeError"}
       /\ Validate(calls[c].in) # ""
    \/ /\ calls[c].pc = "rejected"
       /\ calls[c].err = "InitError"
       /\ calls[c].on # 0 /\ stage[calls[c].on] = "rejected"
    \/ /\ calls[c].pc = "rejected"
       /\ calls[c].err = "AllocError"
       /\ calls[c].ptr = 0
    \/ /\ calls[c].pc = "rejected"
       /\ calls[c].err = "CalcError"
       /\ calls[c].code # 0
    \/ /\ calls[c].pc = "resolved"
       /\ calls[c].reads = Cardinality(ResultNames)
       /\ calls[c].result.error_code = 0

\* Every spa() call settles, one way or another.
C26_EveryCallEnds ==
    \A c \in CallIds : [](calls[c].kind = "spa" => <>Done(c))

\* C26: provided the factory's promise settles, every spa() call
\* eventually settles: rejected for an invalid date, latitude or
\* longitude, for a failed initialisation, for a null result pointer or
\* for a non-zero error code, and otherwise resolved with a result; calls
\* that joined an initialisation in flight included.
C26_EveryCallSettles ==
    \A c \in CallIds : [](calls[c].kind = "spa" => <>SettledAsClaimed(c))

(***************************************************************************)
(* One initialisation, many callers.                                       *)
(***************************************************************************)
\* Call c went past its wait on initialisation k the way k ended.
SawOutcome(c, k) ==
    \/ stage[k] = "fulfilled" /\ calls[c].err # "InitError"
    \/ /\ stage[k] = "rejected"
       /\ calls[c].pc = "rejected" /\ calls[c].err = "InitError"

\* C27: an init() or spa() call that gets as far as init() while an
\* initialisation is in flight is handed the promise of that
\* initialisation and starts none of its own; and all the calls that wait
\* on one initialisation see its one outcome: they all go on when it
\* succeeded, and each of them is rejected with its error when it failed.
C27_SameOutcomeForAll ==
    [][\A c \in CallIds :
         /\ (~Started(c) /\ calls'[c].pc = "awaiting" /\ pending # 0)
               => (calls'[c].on = pending /\ UNCHANGED <<factoryCalls, pending>>)
         /\ (calls'[c].kind # "none" /\ calls'[c].on # 0
                /\ calls'[c].pc # "awaiting")
               => (SawOutcome(c, calls[c].on))']_vars

(***************************************************************************)
(* _pending                                                                *)
(***************************************************************************)
\* The initialisation whose promise chain has not settled yet, 0 if none.
InFlight ==
    IF \E k \in Attempts : stage[k] \in {"loading", "loaded", "failing"}
    THEN CHOOSE k \in Attempts : stage[k] \in {"loading", "loaded", "failing"}
    ELSE 0

\* C30: _pending is non-null exactly while an initialisation is in flight,
\* and it is then the promise of that initialisation: set when init()
\* starts one, null again once it has settled either way; and whenever an
\* init() call begins, _module and _pending are not both non-null.
C30_PendingWhileInFlight ==
    /\ pending = InFlight
    /\ Cardinality({k \in Attempts : stage[k] \in {"loading", "loaded", "failing"}}) <= 1
    /\ ~(module /\ pending # 0)

====
